---------------------------- MODULE Spec2Model ----------------------------
(***************************************************************************)
(* Model of the particle choreography engine of src/frontend/main.js:      *)
(* the template generator (particleTemplates), the morph controller        *)
(* (changeParticleTemplate, animate), the gesture layer (onResults) and    *)
(* the recording session (startRecording, stopRecording, uploadRecording). *)
(*                                                                         *)
(* Numbers are fixed point:                                                *)
(*   - time is counted in ticks, 2 * Res ticks to the second;              *)
(*   - uMorphFactor is a number of ticks out of MorphTicks (value          *)
(*     uMorphFactor / MorphTicks, so MorphTicks stands for 1.0);           *)
(*   - positions are triples of hundredths of a world unit;                *)
(*   - landmark coordinates are hundredths of the normalized frame;        *)
(*   - uParticleSpread is counted in steps of 0.05.                        *)
(***************************************************************************)
EXTENDS Integers, Sequences, FiniteSets, TLC

(* ------------------------------ bounds -------------------------------- *)

\* Number of particles of the model (NUM_PARTICLES is 150000 in the source).
NumParticles == 2

\* Ticks per half second: the resolution of time.
Res == 2

\* Largest frame delta (clock.getDelta()) the model draws, in ticks.
MaxDelta == 5

\* Number of MediaRecorder objects one run creates.
MaxRecorders == 2

\* Number of non-empty chunks the recorders of one run deliver.
MaxChunks == 3

(* -------------------------- program constants ------------------------- *)

\* const MORPH_DURATION = 1.0; // Seconds
MORPH_DURATION == 1

\* setTimeout(() => gestureState.swipeDetected = false, 500)
SWIPE_COOLDOWN_MS == 500

\* Math.max(0.1, ...): 0.1 in steps of 0.05
SPREAD_MIN == 2

\* Math.min(5.0, ...): 5.0 in steps of 0.05
SPREAD_MAX == 100

\* uParticleSpread: { value: 1.0 }: 1.0 in steps of 0.05
SPREAD_INIT == 20

\* pinchDist < 0.05, in hundredths
PINCH_THRESHOLD == 5

\* const swipeThreshold = 0.05, in hundredths
SWIPE_THRESHOLD == 5

\* wrist.y + 0.1, in hundredths
FIST_MARGIN == 10

MorphTicks == MORPH_DURATION * 2 * Res

CooldownTicks == (SWIPE_COOLDOWN_MS * 2 * Res) \div 1000

Particles == 0 .. (NumParticles - 1)

Deltas == 0 .. MaxDelta

(* ------------------------- template generator ------------------------- *)

\* Object.keys(particleTemplates), in insertion order.
Keys == <<"heart", "spiral", "ring", "fireworks">>

KnownShapes == {Keys[k] : k \in 1 .. Len(Keys)}

\* A value of the mode selector that names no template.
UnknownShape == "galaxy"

\* Outcomes of the Math.random() calls of one template call, in hundredths
\* (three calls for fireworks, the first only for ring).
RandomDraws == {<<0, 0, 0>>, <<75, 25, 50>>}

\* Math.sin of p/q of a full turn, in hundredths (Bhaskara's rational
\* approximation of the sine on each half turn).
SinTurn(p, q) ==
    LET r == (2 * p) % (2 * q)
        h == IF r <= q THEN r ELSE r - q
        a == h * (q - h)
        v == (1600 * a) \div (5 * q * q - 4 * a)
    IN  IF r <= q THEN v ELSE 0 - v

\* Math.cos of p/q of a full turn, in hundredths.
CosTurn(p, q) == SinTurn(4 * p + q, 4 * q)

\* heart: (i) => ... cardioid, scaled by 0.2
Heart(i) ==
    LET s  == SinTurn(i, NumParticles)
        x  == (16 * s * s * s) \div 10000
        y  == 13 * CosTurn(i, NumParticles) - 5 * CosTurn(2 * i, NumParticles)
              - 2 * CosTurn(3 * i, NumParticles) - CosTurn(4 * i, NumParticles)
    IN  <<(x * 20) \div 100, (y * 20) \div 100, 0>>

\* spiral: (i) => ... radius i/N*20, angle 0.1*i radians (2*pi taken as
\* 44/7), depth i*0.01 - 10
Spiral(i) ==
    LET radius == (i * 2000) \div NumParticles
    IN  <<(radius * CosTurn(7 * i, 440)) \div 100,
          (radius * SinTurn(7 * i, 440)) \div 100,
          i - 1000>>

\* ring: (i) => ... radius 8 + (Math.random() - 0.5) * 1
Ring(i, draw) ==
    LET radius == 800 + (draw[1] - 50)
    IN  <<(radius * CosTurn(i, NumParticles)) \div 100,
          0,
          (radius * SinTurn(i, NumParticles)) \div 100>>

\* fireworks: () => ... Math.random() * 20 - 10 on each axis
Fireworks(draw) ==
    <<draw[1] * 20 - 1000, draw[2] * 20 - 1000, draw[3] * 20 - 1000>>

\* particleTemplates[name](i), with the outcomes of its Math.random() calls.
Template(name, i, draw) ==
    CASE name = "heart"     -> Heart(i)
      [] name = "spiral"    -> Spiral(i)
      [] name = "ring"      -> Ring(i, draw)
      [] name = "fireworks" -> Fireworks(draw)

\* The position arrays one pass of a template over all particles can give.
Samples(name) ==
    {[i \in Particles |-> Template(name, i, d[i])] : d \in [Particles -> RandomDraws]}

\* mix(startPosition, endPosition, uMorphFactor) of the vertex shader, times
\* MorphTicks (the factor is f / MorphTicks).
MixScaled(a, b, f) == [c \in 1 .. 3 |-> a[c] * (MorphTicks - f) + b[c] * f]

(* ------------------------------- state --------------------------------- *)

VARIABLES
    currentTemplateName,   \* let currentTemplateName
    targetTemplateName,    \* let targetTemplateName
    morphTime,             \* let morphTime, in ticks
    uMorphFactor,          \* uniforms.uMorphFactor.value, in ticks of MorphTicks
    startPositions,        \* geometry attribute startPosition, per particle
    endPositions,          \* geometry attribute endPosition, per particle
    uParticleSpread,       \* uniforms.uParticleSpread.value, in steps of 0.05
    uAttractionPoint,      \* uniforms.uAttractionPoint.value, in hundredths
    activeColor,           \* the color override a pinch is meant to set
    prevX,                 \* gestureState.prevX: <<>> is null, <<x>> a value
    swipeDetected,         \* gestureState.swipeDetected
    swipeTimer,            \* the pending setTimeout: -1 none, else ticks left
    swipeAges,             \* observation: ages in ticks of the swipe requests
                           \* of the last two seconds, newest last
    videoStream,           \* let videoStream: TRUE when the camera gave one
    recordingStatus,       \* let recordingStatus
    recordedChunks,        \* let recordedChunks, a sequence of chunk ids
    recorders,             \* the MediaRecorder objects created, by their state
    mediaRecorder,         \* let mediaRecorder: index in recorders, 0 undefined
    uploads,               \* blobs of the fetch calls not yet answered
    statusText,            \* textContent of #recording-status
    consoleOut,            \* what the last handler wrote to the console
    nextChunk,             \* id of the next chunk a recorder delivers
    sessionChunks,         \* observation: the non-empty chunks delivered since
                           \* the last recorder was started, in arrival order
    lastOp,                \* the handler that ran last
    reqName,               \* argument of the last changeParticleTemplate call
    lastFrame,             \* results.multiHandLandmarks of the last onResults
    threw                  \* the last handler ended by an uncaught exception

morphVars == <<currentTemplateName, targetTemplateName, morphTime, uMorphFactor,
               startPositions, endPositions>>

gestureVars == <<uParticleSpread, uAttractionPoint, activeColor, prevX,
                 swipeDetected, swipeTimer>>

recVars == <<videoStream, recordingStatus, recordedChunks, recorders,
             mediaRecorder, uploads, statusText, consoleOut, nextChunk,
             sessionChunks>>

vars == <<currentTemplateName, targetTemplateName, morphTime, uMorphFactor,
          startPositions, endPositions, uParticleSpread, uAttractionPoint,
          activeColor, prevX, swipeDetected, swipeTimer, swipeAges,
          videoStream, recordingStatus, recordedChunks, recorders,
          mediaRecorder, uploads, statusText, consoleOut, nextChunk,
          sessionChunks, lastOp, reqName, lastFrame, threw>>

(* ---------------------------- morph controller ------------------------- *)

\* Module state after load and createParticles('heart', 'heart').
InitMorph ==
    /\ currentTemplateName = "heart"
    /\ targetTemplateName = "heart"
    /\ morphTime = 0
    /\ uMorphFactor = 0
    /\ startPositions = [i \in Particles |-> Heart(i)]
    /\ endPositions = [i \in Particles |-> Heart(i)]

\* Math.min(1.0, morphTime / MORPH_DURATION)
Factor(t) == IF t >= MorphTicks THEN MorphTicks ELSE t

\* MorphStep without the reset of uMorphFactor when the morph completes.
MorphStepKeepsFactor(delta) ==
    IF currentTemplateName # targetTemplateName
    THEN IF Factor(morphTime + delta) >= MorphTicks
         THEN /\ currentTemplateName' = targetTemplateName
              /\ uMorphFactor' = Factor(morphTime + delta)
              /\ morphTime' = 0
              /\ UNCHANGED targetTemplateName
         ELSE /\ morphTime' = morphTime + delta
              /\ uMorphFactor' = Factor(morphTime + delta)
              /\ UNCHANGED <<currentTemplateName, targetTemplateName>>
    ELSE UNCHANGED <<currentTemplateName, targetTemplateName, morphTime, uMorphFactor>>

\* MorphStep without the reset of morphTime when the morph completes.
MorphStepKeepsTime(delta) ==
    IF currentTemplateName # targetTemplateName
    THEN IF Factor(morphTime + delta) >= MorphTicks
         THEN /\ currentTemplateName' = targetTemplateName
              /\ uMorphFactor' = 0
              /\ morphTime' = morphTime + delta
              /\ UNCHANGED targetTemplateName
         ELSE /\ morphTime' = morphTime + delta
              /\ uMorphFactor' = Factor(morphTime + delta)
              /\ UNCHANGED <<currentTemplateName, targetTemplateName>>
    ELSE UNCHANGED <<currentTemplateName, targetTemplateName, morphTime, uMorphFactor>>

\* MorphStep without the advance of morphTime.
MorphStepStalls(delta) ==
    IF currentTemplateName # targetTemplateName
    THEN IF Factor(morphTime) >= MorphTicks
         THEN /\ currentTemplateName' = targetTemplateName
              /\ uMorphFactor' = 0
              /\ morphTime' = 0
              /\ UNCHANGED targetTemplateName
         ELSE /\ morphTime' = morphTime
              /\ uMorphFactor' = Factor(morphTime)
              /\ UNCHANGED <<currentTemplateName, targetTemplateName>>
    ELSE UNCHANGED <<currentTemplateName, targetTemplateName, morphTime, uMorphFactor>>

\* The morph part of animate().
MorphStep(delta) ==
    IF currentTemplateName # targetTemplateName
    THEN IF Factor(morphTime + delta) >= MorphTicks
         THEN /\ currentTemplateName' = targetTemplateName
              /\ uMorphFactor' = 0
              /\ morphTime' = 0
              /\ UNCHANGED targetTemplateName
         ELSE /\ morphTime' = morphTime + delta
              /\ uMorphFactor' = Factor(morphTime + delta)
              /\ UNCHANGED <<currentTemplateName, targetTemplateName>>
    ELSE UNCHANGED <<currentTemplateName, targetTemplateName, morphTime, uMorphFactor>>

\* The start positions changeParticleTemplate leaves: the current end positions.
ShiftedStart == endPositions

\* Whether changeParticleTemplate(newTemplateName) throws: the template looked
\* up is undefined and is called in the first pass of the loop.
ChangeThrows(newTemplateName) ==
    /\ newTemplateName # currentTemplateName
    /\ newTemplateName \notin KnownShapes

\* changeParticleTemplate(newTemplateName) on the morph state.
ChangeParticleTemplate(newTemplateName) ==
    IF newTemplateName = currentTemplateName
    THEN UNCHANGED morphVars
    ELSE IF newTemplateName \notin KnownShapes
         THEN \* the first pass of the loop copies particle 0's end to its
              \* start, then the call of undefined throws
              /\ startPositions' = [startPositions EXCEPT ![0] = endPositions[0]]
              /\ UNCHANGED <<currentTemplateName, targetTemplateName, morphTime,
                             uMorphFactor, endPositions>>
         ELSE /\ startPositions' = ShiftedStart
              /\ endPositions' \in Samples(newTemplateName)
              /\ targetTemplateName' = newTemplateName
              /\ morphTime' = 0
              /\ UNCHANGED <<currentTemplateName, uMorphFactor>>

\* animate(): one frame with clock.getDelta() = delta.
Animate(delta) ==
    /\ MorphStep(delta)
    /\ lastOp' = "animate"
    /\ threw' = FALSE
    /\ UNCHANGED <<startPositions, endPositions, reqName, gestureVars,
                   swipeAges, lastFrame, recVars>>

\* The 'change' listener of the particle-mode selector.
SelectShape(name) ==
    /\ ChangeParticleTemplate(name)
    /\ reqName' = name
    /\ lastOp' = "changeParticleTemplate"
    /\ threw' = ChangeThrows(name)
    /\ UNCHANGED <<gestureVars, swipeAges, lastFrame, recVars>>

(* ------------------------------ gesture layer -------------------------- *)

\* The landmarks onResults reads: wrist, thumb tip, index tip, palm centre,
\* middle, ring and pinky tips.
LandmarkIds == {0, 4, 8, 9, 12, 16, 20}

\* One detected hand: index tip at x = ix, thumb tip beside it (pinch) or
\* away from it, fingertips below the wrist line (open) or level with it.
MkHand(ix, pinch, open) ==
    LET ty == IF open THEN 70 ELSE 50
    IN  [k \in LandmarkIds |->
            CASE k = 0 -> <<50, 50>>
              [] k = 4 -> <<ix + (IF pinch THEN 3 ELSE 20), ty>>
              [] k = 9 -> <<ix - 10, 55>>
              [] OTHER -> <<ix, ty>>]

\* results.multiHandLandmarks of a frame with no hand.
NoHand == <<>>

\* Frames with one hand that is not pinching.
PlainFrames == {<<MkHand(ix, FALSE, open)>> : ix \in {40, 50}, open \in BOOLEAN}

\* Frames with one pinching hand.
PinchFrames == {<<MkHand(50, TRUE, TRUE)>>}

Frames == {NoHand} \cup PlainFrames \cup PinchFrames

\* pinchDist < 0.05, on the squares
IsPinch(lm) ==
    LET dx == lm[8][1] - lm[4][1]
        dy == lm[8][2] - lm[4][2]
    IN  dx * dx + dy * dy < PINCH_THRESHOLD * PINCH_THRESHOLD

\* fistDetection: fingerTipYSum / allTips.length > wrist.y + 0.1
FistDetection(lm) ==
    lm[4][2] + lm[8][2] + lm[12][2] + lm[16][2] + lm[20][2]
        > 5 * (lm[0][2] + FIST_MARGIN)

\* NextSpread without Math.max and Math.min.
NextSpreadUnclamped(lm) ==
    IF ~FistDetection(lm) THEN uParticleSpread - 1 ELSE uParticleSpread + 1

\* The new uParticleSpread of the open/closed-hand branch.
NextSpread(lm) ==
    IF ~FistDetection(lm)
    THEN IF uParticleSpread - 1 < SPREAD_MIN THEN SPREAD_MIN ELSE uParticleSpread - 1
    ELSE IF uParticleSpread + 1 > SPREAD_MAX THEN SPREAD_MAX ELSE uParticleSpread + 1

\* SwipeTriggered without the test of the debounce flag.
SwipeTriggeredNoDebounce(lm) ==
    /\ prevX # <<>>
    /\ LET deltaX == lm[8][1] - prevX[1]
       IN  (IF deltaX < 0 THEN 0 - deltaX ELSE deltaX) > SWIPE_THRESHOLD

\* The swipe test: a previous x, a delta over the threshold, no debounce.
SwipeTriggered(lm) ==
    /\ prevX # <<>>
    /\ LET deltaX == lm[8][1] - prevX[1]
       IN  (IF deltaX < 0 THEN 0 - deltaX ELSE deltaX) > SWIPE_THRESHOLD
    /\ ~swipeDetected

\* keys.indexOf(currentTemplateName), from 0
IndexOfKey(name) == (CHOOSE k \in 1 .. Len(Keys) : Keys[k] = name) - 1

\* keys[nextIndex]: the next or previous key, cyclically
SwipeTarget(lm) ==
    LET deltaX == lm[8][1] - prevX[1]
        step == IF deltaX > 0 THEN 1 ELSE 0 - 1
    IN  Keys[((IndexOfKey(currentTemplateName) + step + Len(Keys)) % Len(Keys)) + 1]

\* The new attraction point: (landmarks[9] - 0.5) * -30 on x and y, z = 0
AttractionOf(lm) == <<(lm[9][1] - 50) * (0 - 30), (lm[9][2] - 50) * (0 - 30), 0>>

\* A no-hand frame that leaves gestureState.prevX as it is.
NoHandPrevXKept == prevX

\* gestureState.prevX after a frame with no hand: null.
NoHandPrevX == <<>>

\* Whether onResults(frame) throws: a pinch assigns to
\* particles.material.uniforms.vColor.value, and uniforms has no vColor.
PinchThrows(frame) == frame # <<>> /\ IsPinch(frame[1])

\* onResults(results) with results.multiHandLandmarks = frame; animate sends
\* frames to the tracker only when the camera gave a stream.
OnResults(frame) ==
    /\ videoStream
    /\ UNCHANGED recVars
    /\ lastOp' = "onResults"
    /\ lastFrame' = frame
    /\ threw' = PinchThrows(frame)
    /\ IF frame = <<>>
       THEN /\ prevX' = NoHandPrevX
            /\ UNCHANGED <<morphVars, reqName, uParticleSpread, uAttractionPoint,
                           activeColor, swipeDetected, swipeTimer>>
       ELSE IF PinchThrows(frame)
            THEN UNCHANGED <<morphVars, reqName, gestureVars>>
            ELSE LET lm == frame[1]
                 IN  /\ uParticleSpread' = NextSpread(lm)
                     /\ IF SwipeTriggered(lm)
                        THEN /\ ChangeParticleTemplate(SwipeTarget(lm))
                             /\ reqName' = SwipeTarget(lm)
                             /\ swipeDetected' = TRUE
                             /\ swipeTimer' = CooldownTicks
                        ELSE UNCHANGED <<morphVars, reqName, swipeDetected, swipeTimer>>
                     /\ prevX' = <<lm[8][1]>>
                     /\ uAttractionPoint' = AttractionOf(lm)
                     /\ UNCHANGED activeColor

\* The setTimeout callback of the swipe debounce, once its 500 ms have passed.
SwipeTimeout ==
    /\ swipeTimer = 0
    /\ swipeDetected' = FALSE
    /\ swipeTimer' = 0 - 1
    /\ lastOp' = "swipeTimeout"
    /\ threw' = FALSE
    /\ UNCHANGED <<morphVars, reqName, uParticleSpread, uAttractionPoint,
                   activeColor, prevX, swipeAges, lastFrame, recVars>>

\* One tick of wall-clock time passes on the pending timer.
Tick ==
    /\ swipeTimer' = IF swipeTimer > 0 THEN swipeTimer - 1 ELSE swipeTimer
    /\ UNCHANGED <<morphVars, reqName, uParticleSpread, uAttractionPoint,
                   activeColor, prevX, swipeDetected, lastOp, lastFrame, threw,
                   recVars>>

InitGesture ==
    /\ uParticleSpread = SPREAD_INIT
    /\ uAttractionPoint = <<0, 0, 0>>
    /\ activeColor = "none"
    /\ prevX = <<>>
    /\ swipeDetected = FALSE
    /\ swipeTimer = 0 - 1
    /\ swipeAges = <<>>
    /\ lastFrame = <<>>

(* --------------------------- recording session ------------------------- *)

\* Everything but the recording session.
otherVars == <<morphVars, gestureVars, swipeAges, reqName, lastFrame>>

InitRec ==
    /\ videoStream \in BOOLEAN
    /\ recordingStatus = "idle"
    /\ recordedChunks = <<>>
    /\ recorders = <<>>
    /\ mediaRecorder = 0
    /\ uploads = <<>>
    /\ statusText = "unset"
    /\ consoleOut = ""
    /\ nextChunk = 1
    /\ sessionChunks = <<>>

\* StartRecordingBody without the test of videoStream.
StartRecordingBodyNoStreamCheck(created) ==
    IF created
    THEN /\ recorders' = Append(recorders, "recording")
         /\ mediaRecorder' = Len(recorders) + 1
         /\ recordingStatus' = "recording"
         /\ statusText' = "Recording: Active"
         /\ consoleOut' = "Recording started."
         /\ sessionChunks' = <<>>
         /\ UNCHANGED <<videoStream, recordedChunks, uploads, nextChunk>>
    ELSE /\ recordingStatus' = "error"
         /\ statusText' = "Recording: Error"
         /\ consoleOut' = "MediaRecorder start error:"
         /\ UNCHANGED <<videoStream, recordedChunks, recorders,
                        mediaRecorder, uploads, nextChunk, sessionChunks>>

\* startRecording(); created tells whether new MediaRecorder(...) and its
\* start() succeed or throw.
StartRecordingBody(created) ==
    IF ~videoStream
    THEN /\ consoleOut' = "Cannot start recording: No video stream."
         /\ statusText' = "Recording: Failed (No Stream)"
         /\ UNCHANGED <<videoStream, recordingStatus, recordedChunks, recorders,
                        mediaRecorder, uploads, nextChunk, sessionChunks>>
    ELSE IF created
         THEN /\ recorders' = Append(recorders, "recording")
              /\ mediaRecorder' = Len(recorders) + 1
              /\ recordingStatus' = "recording"
              /\ statusText' = "Recording: Active"
              /\ consoleOut' = "Recording started."
              /\ sessionChunks' = <<>>
              /\ UNCHANGED <<videoStream, recordedChunks, uploads, nextChunk>>
         ELSE /\ recordingStatus' = "error"
              /\ statusText' = "Recording: Error"
              /\ consoleOut' = "MediaRecorder start error:"
              /\ UNCHANGED <<videoStream, recordedChunks, recorders,
                             mediaRecorder, uploads, nextChunk, sessionChunks>>

\* stopRecording()
StopRecordingBody ==
    IF mediaRecorder # 0 /\ recordingStatus = "recording"
    THEN /\ recorders' = [recorders EXCEPT ![mediaRecorder] = "stopping"]
         /\ recordingStatus' = "uploading"
         /\ statusText' = "Recording: Stopping & Uploading..."
         /\ consoleOut' = "Recording stopped. Preparing for upload."
         /\ UNCHANGED <<videoStream, recordedChunks, mediaRecorder, uploads,
                        nextChunk, sessionChunks>>
    ELSE /\ consoleOut' = ""
         /\ UNCHANGED <<videoStream, recordingStatus, recordedChunks, recorders,
                        mediaRecorder, uploads, statusText, nextChunk,
                        sessionChunks>>

\* A call of startRecording() (the consent handler calls it when the save
\* toggle is checked).
StartRecording(created) ==
    /\ videoStream => Len(recorders) < MaxRecorders
    /\ StartRecordingBody(created)
    /\ lastOp' = "startRecording"
    /\ threw' = FALSE
    /\ UNCHANGED otherVars

\* A call of stopRecording().
StopRecording ==
    /\ StopRecordingBody
    /\ lastOp' = "stopRecording"
    /\ threw' = FALSE
    /\ UNCHANGED otherVars

\* The keydown listener, for the key 'r' or 'R'.
KeyR(created) ==
    /\ (recordingStatus = "idle" /\ videoStream) => Len(recorders) < MaxRecorders
    /\ IF recordingStatus = "recording"
       THEN StopRecordingBody
       ELSE IF recordingStatus = "idle"
            THEN StartRecordingBody(created)
            ELSE /\ consoleOut' = ""
                 /\ UNCHANGED <<videoStream, recordingStatus, recordedChunks,
                                recorders, mediaRecorder, uploads, statusText,
                                nextChunk, sessionChunks>>
    /\ lastOp' = "keydown"
    /\ threw' = FALSE
    /\ UNCHANGED otherVars

\* DataAvailable keeping a chunk only while recordingStatus is 'recording'.
DataAvailableOnlyWhileRecording(r, nonEmpty) ==
    /\ recorders[r] \in {"recording", "stopping"}
    /\ IF nonEmpty
       THEN /\ nextChunk <= MaxChunks
            /\ recordedChunks' = IF recordingStatus = "recording"
                                 THEN Append(recordedChunks, nextChunk)
                                 ELSE recordedChunks
            /\ nextChunk' = nextChunk + 1
            /\ sessionChunks' = Append(sessionChunks, nextChunk)
       ELSE UNCHANGED <<recordedChunks, nextChunk, sessionChunks>>
    /\ consoleOut' = ""
    /\ lastOp' = IF nonEmpty THEN "ondataavailable" ELSE "ondataavailable:empty"
    /\ threw' = FALSE
    /\ UNCHANGED <<videoStream, recordingStatus, recorders, mediaRecorder,
                   uploads, statusText, otherVars>>

\* mediaRecorder.ondataavailable of recorder r, with event.data.size > 0
\* (nonEmpty) or = 0.
DataAvailable(r, nonEmpty) ==
    /\ recorders[r] \in {"recording", "stopping"}
    /\ IF nonEmpty
       THEN /\ nextChunk <= MaxChunks
            /\ recordedChunks' = Append(recordedChunks, nextChunk)
            /\ nextChunk' = nextChunk + 1
            /\ sessionChunks' = Append(sessionChunks, nextChunk)
       ELSE UNCHANGED <<recordedChunks, nextChunk, sessionChunks>>
    /\ consoleOut' = ""
    /\ lastOp' = IF nonEmpty THEN "ondataavailable" ELSE "ondataavailable:empty"
    /\ threw' = FALSE
    /\ UNCHANGED <<videoStream, recordingStatus, recorders, mediaRecorder,
                   uploads, statusText, otherVars>>

\* A blob that lacks the first of the chunks.
BlobDropsFirst(chunks) == Tail(chunks)

\* new Blob(recordedChunks): the chunks concatenated in their order.
BlobOf(chunks) == chunks

\* RecorderStop without the return to 'idle' when there is nothing to upload.
RecorderStopKeepsStatus(r) ==
    /\ recorders[r] = "stopping"
    /\ recorders' = [recorders EXCEPT ![r] = "inactive"]
    /\ IF recordedChunks = <<>>
       THEN /\ consoleOut' = "No recorded data to upload."
            /\ UNCHANGED <<recordingStatus, statusText, recordedChunks, uploads>>
       ELSE /\ uploads' = Append(uploads, BlobOf(recordedChunks))
            /\ recordedChunks' = <<>>
            /\ consoleOut' = ""
            /\ UNCHANGED <<recordingStatus, statusText>>
    /\ lastOp' = "onstop"
    /\ threw' = FALSE
    /\ UNCHANGED <<videoStream, mediaRecorder, nextChunk, sessionChunks,
                   otherVars>>

\* mediaRecorder.onstop of recorder r: uploadRecording() up to its fetch.
RecorderStop(r) ==
    /\ recorders[r] = "stopping"
    /\ recorders' = [recorders EXCEPT ![r] = "inactive"]
    /\ IF recordedChunks = <<>>
       THEN /\ consoleOut' = "No recorded data to upload."
            /\ recordingStatus' = "idle"
            /\ statusText' = "Recording: Idle"
            /\ UNCHANGED <<recordedChunks, uploads>>
       ELSE /\ uploads' = Append(uploads, BlobOf(recordedChunks))
            /\ recordedChunks' = <<>>
            /\ consoleOut' = ""
            /\ UNCHANGED <<recordingStatus, statusText>>
    /\ lastOp' = "onstop"
    /\ threw' = FALSE
    /\ UNCHANGED <<videoStream, mediaRecorder, nextChunk, sessionChunks,
                   otherVars>>

\* How a POST to /upload-video can end: an ok response, a response that is
\* not ok, a rejected fetch, a body response.json() cannot parse.
UploadOutcomes == {"ok", "notOk", "fetchRejected", "badBody"}

\* UploadDone taking a response that is not ok for a success.
UploadDoneRejectionIsIdle(outcome) ==
    /\ uploads # <<>>
    /\ uploads' = Tail(uploads)
    /\ IF outcome \in {"ok", "notOk"}
       THEN /\ recordingStatus' = "idle"
            /\ statusText' = "Recording: Uploaded!"
            /\ consoleOut' = "Upload Success:"
       ELSE /\ recordingStatus' = "error"
            /\ statusText' = "Upload Failed:"
            /\ consoleOut' = "Upload Failed:"
    /\ lastOp' = "uploadDone"
    /\ threw' = FALSE
    /\ UNCHANGED <<videoStream, recordedChunks, recorders, mediaRecorder,
                   nextChunk, sessionChunks, otherVars>>

\* uploadRecording() after its awaits, for the oldest fetch in flight.
UploadDone(outcome) ==
    /\ uploads # <<>>
    /\ uploads' = Tail(uploads)
    /\ IF outcome = "ok"
       THEN /\ recordingStatus' = "idle"
            /\ statusText' = "Recording: Uploaded!"
            /\ consoleOut' = "Upload Success:"
       ELSE /\ recordingStatus' = "error"
            /\ statusText' = "Upload Failed:"
            /\ consoleOut' = "Upload Failed:"
    /\ lastOp' = "uploadDone"
    /\ threw' = FALSE
    /\ UNCHANGED <<videoStream, recordedChunks, recorders, mediaRecorder,
                   nextChunk, sessionChunks, otherVars>>

(* ---------------------------- specifications --------------------------- *)

Init ==
    /\ InitMorph
    /\ InitGesture
    /\ InitRec
    /\ lastOp = "init"
    /\ reqName = "heart"
    /\ threw = FALSE

\* The morph controller under frames and selector changes.
NextMorph ==
    \/ \E delta \in Deltas : Animate(delta)
    \/ \E name \in KnownShapes \cup {UnknownShape} : SelectShape(name)

SpecMorph == Init /\ [][NextMorph]_vars

\* The morph controller under frames, selections of the selector's shapes
\* and landmark frames without a hand.
NextMorphFrames ==
    \/ \E delta \in Deltas : Animate(delta)
    \/ \E name \in KnownShapes : SelectShape(name)
    \/ OnResults(NoHand) /\ UNCHANGED swipeAges

\* animate() reschedules itself with requestAnimationFrame on every frame,
\* and the clock advances between two frames: frames with a positive delta
\* keep coming.
SpecMorphFair ==
    /\ Init
    /\ [][NextMorphFrames]_vars
    /\ WF_vars(\E delta \in Deltas \ {0} : Animate(delta))

\* The gesture layer under landmark frames and its debounce timer.
NextGesture ==
    \/ \E frame \in Frames : OnResults(frame) /\ UNCHANGED swipeAges
    \/ SwipeTimeout
    \/ Tick /\ UNCHANGED swipeAges

SpecGesture == Init /\ [][NextGesture]_vars

\* Two seconds, in ticks: the window over which swipe requests are counted.
WindowTicks == 4 * Res

\* The landmark frames of a closed hand swiping left and right, and of no
\* hand.
SwipeFrames == {NoHand} \cup {<<MkHand(ix, FALSE, FALSE)>> : ix \in {40, 50}}

\* Whether onResults(frame) calls changeParticleTemplate.
SwipeRequested(frame) ==
    /\ frame # <<>>
    /\ ~PinchThrows(frame)
    /\ SwipeTriggered(frame[1])

\* The ages after one more tick, those of two seconds and more dropped.
Aged(ages) ==
    SelectSeq([k \in 1 .. Len(ages) |-> ages[k] + 1], LAMBDA a : a < WindowTicks)

\* The gesture layer with the swipe requests of the last two seconds observed.
NextSwipe ==
    \/ \E frame \in SwipeFrames :
          /\ OnResults(frame)
          /\ swipeAges' = IF SwipeRequested(frame)
                          THEN Append(swipeAges, 0)
                          ELSE swipeAges
    \/ SwipeTimeout
    \/ Tick /\ swipeAges' = Aged(swipeAges)

SpecSwipe == Init /\ [][NextSwipe]_vars

\* The recording session under calls, key presses, recorder events and
\* upload completions.
NextRec ==
    \/ \E created \in BOOLEAN : StartRecording(created)
    \/ StopRecording
    \/ \E created \in BOOLEAN : KeyR(created)
    \/ \E r \in 1 .. Len(recorders), nonEmpty \in BOOLEAN : DataAvailable(r, nonEmpty)
    \/ \E r \in 1 .. Len(recorders) : RecorderStop(r)
    \/ \E outcome \in UploadOutcomes : UploadDone(outcome)

SpecRec == Init /\ [][NextRec]_vars

\* The recording session driven from the control surface alone: the 'r' key
\* starts and stops it, the recorder and the upload answer.
NextSession ==
    \/ \E created \in BOOLEAN : KeyR(created)
    \/ \E r \in 1 .. Len(recorders), nonEmpty \in BOOLEAN : DataAvailable(r, nonEmpty)
    \/ \E r \in 1 .. Len(recorders) : RecorderStop(r)
    \/ \E outcome \in UploadOutcomes : UploadDone(outcome)

SpecSession == Init /\ [][NextSession]_vars

\* The session with a recorder that delivers the stop event of every stop()
\* and an upload that ends, one way or the other.
SpecSessionFair ==
    /\ Init
    /\ [][NextSession]_vars
    /\ WF_vars(\E r \in 1 .. Len(recorders) : RecorderStop(r))
    /\ WF_vars(\E outcome \in UploadOutcomes : UploadDone(outcome))

(* -------------------------------- claims ------------------------------- *)

Morphing == currentTemplateName # targetTemplateName

\* The published factor is the one of the current episode: a frame of it
\* has published it, or it is the 0 the episode started with.  (A request
\* made while morphing starts a new episode and leaves the old episode's
\* factor in the uniform until the next frame.)
FactorOfEpisode == morphTime > 0 \/ uMorphFactor = 0

\* A request accepted while a morph is in flight with 0 < factor < 1.
MidMorphRequest ==
    /\ Morphing
    /\ uMorphFactor = morphTime
    /\ 0 < uMorphFactor
    /\ uMorphFactor < MorphTicks
    /\ lastOp' = "changeParticleTemplate"
    /\ reqName' \in KnownShapes

\* The start positions are the positions interpolated just before the step.
StartIsInterpolated ==
    \A i \in Particles :
        [c \in 1 .. 3 |-> startPositions'[i][c] * MorphTicks]
            = MixScaled(startPositions[i], endPositions[i], uMorphFactor)

C2_RetriggerStartsAtInterpolated ==
    [][(MidMorphRequest /\ reqName' # currentTemplateName)
        => StartIsInterpolated]_vars

\* C3: a request for shape A made while the morph from A to B is in flight
\* starts a morph whose target is A: target A, end positions sampled from
\* A, morphTime 0, start positions the interpolated A->B positions.
C3_RequestBackToCurrent ==
    [][(MidMorphRequest /\ reqName' = currentTemplateName)
        => /\ targetTemplateName' = reqName'
           /\ endPositions' \in Samples(reqName')
           /\ morphTime' = 0
           /\ StartIsInterpolated]_vars

\* C4: at every frame boundary morphTime lies in [0, MORPH_DURATION]; a
\* frame that brings morphTime to MORPH_DURATION or beyond makes the target
\* current and morphTime 0; and whenever current = target, morphTime and
\* uMorphFactor are 0.
C4_MorphTimeInvariant ==
    /\ [](morphTime \in 0 .. MorphTicks)
    /\ [](~Morphing => (morphTime = 0 /\ uMorphFactor = 0))
    /\ [][\A delta \in Deltas :
            (Morphing /\ morphTime + delta >= MorphTicks /\ Animate(delta))
                => /\ currentTemplateName' = targetTemplateName
                   /\ targetTemplateName' = targetTemplateName
                   /\ morphTime' = 0]_vars

\* C4 witness: a frame has brought a morph to ring to its end.
C4_Witness ==
    /\ lastOp = "animate"
    /\ currentTemplateName = "ring"
    /\ targetTemplateName = "ring"
    /\ morphTime = 0
    /\ startPositions # endPositions

\* C5: a shape-change request naming no known template changes neither
\* current, target, morphTime nor any particle's start or end position,
\* and current and target always name known templates.
C5_UnknownShapeRejected ==
    /\ [](currentTemplateName \in KnownShapes /\ targetTemplateName \in KnownShapes)
    /\ [][(lastOp' = "changeParticleTemplate" /\ reqName' \notin KnownShapes)
            => /\ UNCHANGED <<currentTemplateName, targetTemplateName, morphTime>>
               /\ UNCHANGED <<startPositions, endPositions>>]_vars

\* A step moves the spread by at most one step of 0.05, and only onResults
\* on a frame with a hand moves it.
SpreadStep ==
    /\ uParticleSpread' - uParticleSpread \in {0 - 1, 0, 1}
    /\ (uParticleSpread' # uParticleSpread)
         => (lastOp' = "onResults" /\ lastFrame' # <<>>)

\* C6: after every landmark frame uParticleSpread lies in [0.1, 5.0]; a
\* frame moves it by at most one step of 0.05, and it stays at a bound it
\* would pass.
C6_SpreadBounded ==
    /\ [](uParticleSpread \in SPREAD_MIN .. SPREAD_MAX)
    /\ [][SpreadStep]_vars

\* C6 witness: open-hand frames have brought the spread to its maximum.
C6_Witness ==
    /\ uParticleSpread = SPREAD_MAX
    /\ lastOp = "onResults"
    /\ lastFrame \in PlainFrames
    /\ FistDetection(lastFrame[1])

\* While swipeDetected is set no step makes a shape-change request; only
\* the timer, its 500 ms passed, clears the flag; and a request comes no
\* sooner than 500 ms after the one before.
DebouncedStep ==
    /\ swipeDetected => (UNCHANGED <<morphVars, reqName>>
                           /\ Len(swipeAges') <= Len(swipeAges))
    /\ (swipeDetected /\ ~swipeDetected')
         => (lastOp' = "swipeTimeout" /\ swipeTimer = 0)
    /\ (Len(swipeAges') > Len(swipeAges))
         => (\A k \in 1 .. Len(swipeAges) : swipeAges[k] >= CooldownTicks)

\* C7: any two seconds hold at most 2 / 0.5 = 4 swipe requests, however
\* many frames arrive; no request is made while swipeDetected is set, and
\* the flag is cleared only by the timer, once its 500 ms have passed.
C7_SwipeRateLimited ==
    /\ [](Len(swipeAges) <= WindowTicks \div CooldownTicks)
    /\ [][DebouncedStep]_vars

\* C7 witness: four swipe requests lie within the last two seconds.
C7_Witness == Len(swipeAges) = WindowTicks \div CooldownTicks

\* C8: after onResults has handled a frame with a hand, uAttractionPoint is
\* the affine image of that frame's landmark 9, whatever the gesture.
C8_AttractionAlwaysUpdated ==
    (lastOp = "onResults" /\ lastFrame # <<>>)
        => uAttractionPoint = AttractionOf(lastFrame[1])

\* A no-hand frame changes no control parameter and no morph state; a
\* frame that finds prevX null requests no shape change.
NoHandStep ==
    /\ (lastOp' = "onResults" /\ lastFrame' = <<>>)
         => UNCHANGED <<uParticleSpread, uAttractionPoint, activeColor,
                        currentTemplateName, targetTemplateName, morphTime,
                        swipeDetected>>
    /\ (lastOp' = "onResults" /\ prevX = <<>>)
         => UNCHANGED <<morphVars, reqName, swipeDetected>>

\* C9: a frame with no hand sets prevX to null and changes neither the
\* control parameters nor the morph state; and a hand frame that finds
\* prevX null (the first after a no-hand frame) triggers no swipe.
C9_NoHandFrame ==
    /\ []((lastOp = "onResults" /\ lastFrame = <<>>) => prevX = <<>>)
    /\ [][NoHandStep]_vars

\* C9 witness: a no-hand frame arrives after hand frames moved the
\* attraction point and a swipe set the debounce flag.
C9_Witness ==
    /\ lastOp = "onResults"
    /\ lastFrame = <<>>
    /\ prevX = <<>>
    /\ swipeDetected
    /\ uAttractionPoint # <<0, 0, 0>>

\* C10: stopRecording called in a state other than recording leaves
\* recordingStatus and recordedChunks unchanged, issues no upload, and
\* reports the invalid state to the caller.
C10_StopWhenNotRecording ==
    [][(lastOp' = "stopRecording" /\ recordingStatus # "recording")
        => /\ UNCHANGED <<recordingStatus, recordedChunks, uploads, recorders>>
           /\ (consoleOut' # "" \/ statusText' # statusText \/ threw')]_vars

\* C11: startRecording called while the session is recording or uploading
\* changes neither recordingStatus, recordedChunks nor the recorder, so no
\* second recorder is created; and no upload completion sets the status
\* to idle while a recorder is still capturing.
C11_StartWhileInFlight ==
    /\ [][(lastOp' = "startRecording"
             /\ recordingStatus \in {"recording", "uploading"})
            => UNCHANGED <<recordingStatus, recordedChunks, recorders,
                           mediaRecorder>>]_vars
    /\ []((lastOp = "uploadDone" /\ recordingStatus = "idle")
            => \A r \in 1 .. Len(recorders) : recorders[r] # "recording")

\* The hand-off gives the upload the chunks of the session in arrival
\* order, and a successful upload leaves idle with no chunk retained.
SessionCycleStep ==
    /\ (lastOp' = "onstop" /\ sessionChunks # <<>>)
         => (uploads' = Append(uploads, sessionChunks) /\ recordedChunks' = <<>>)
    /\ UploadDone("ok")
         => (recordingStatus' = "idle" /\ recordedChunks' = <<>>)

\* C12: a session of a start, k >= 1 non-empty chunks, a stop and a
\* successful upload ends in idle with recordedChunks empty, and the blob
\* handed to the upload is those k chunks in arrival order.
C12_FullCycle == [][SessionCycleStep]_vars

\* C12 witness: a session of MaxChunks chunks has been uploaded with success.
C12_Witness ==
    /\ lastOp = "uploadDone"
    /\ consoleOut = "Upload Success:"
    /\ Len(sessionChunks) = MaxChunks
    /\ recordingStatus = "idle"
    /\ recordedChunks = <<>>

\* Every upload outcome but the ok response leaves the same state: error,
\* no chunk retained, the failure shown in the status text.
FailedUploadStep ==
    \A outcome \in UploadOutcomes \ {"ok"} :
        UploadDone(outcome)
            => /\ recordingStatus' = "error"
               /\ recordedChunks' = <<>>
               /\ statusText' = "Upload Failed:"
               /\ consoleOut' # ""

\* C13: an upload that does not succeed (the fetch rejected, a response
\* that is not ok, a body that cannot be parsed) ends the session in error
\* with recordedChunks empty and a failure reason retained, the same state
\* for every kind of failure.
C13_FailedUpload == [][FailedUploadStep]_vars

\* C13 witness: an upload has failed.
C13_Witness ==
    /\ lastOp = "uploadDone"
    /\ recordingStatus = "error"
    /\ recordedChunks = <<>>
    /\ statusText = "Upload Failed:"
    /\ sessionChunks # <<>>

\* C14: in error with a stream available, a start request from the
\* control surface (the 'r' key) starts a recorder: the session goes to
\* recording, or the recorder's own start fails anew.
C14_ErrorNotSticky ==
    [][(lastOp' = "keydown" /\ recordingStatus = "error" /\ videoStream)
        => \/ recordingStatus' = "recording"
           \/ consoleOut' = "MediaRecorder start error:"]_vars

\* A non-empty chunk is appended, also after stopRecording; a zero-length
\* one never is; and the hand-off uploads every chunk of the session.
LateChunkStep ==
    /\ \A r \in 1 .. Len(recorders) :
          DataAvailable(r, TRUE)
              => recordedChunks' = Append(recordedChunks, nextChunk)
    /\ (lastOp' = "ondataavailable:empty") => UNCHANGED recordedChunks
    /\ \A r \in 1 .. Len(recorders) :
          (RecorderStop(r) /\ sessionChunks # <<>>)
              => uploads'[Len(uploads')] = sessionChunks

\* C15: a non-empty chunk delivered after stopRecording and before onstop
\* is appended to recordedChunks and is part of the blob uploaded; a
\* zero-length chunk is appended in no state.
C15_LateChunkKept ==
    /\ [][LateChunkStep]_vars
    /\ []((recordingStatus = "uploading" /\ mediaRecorder # 0
             /\ recorders[mediaRecorder] = "stopping")
            => recordedChunks = sessionChunks)

\* C15 witness: a non-empty chunk has arrived between stopRecording and
\* onstop and is held with the ones before it.
C15_Witness ==
    /\ lastOp = "ondataavailable"
    /\ recordingStatus = "uploading"
    /\ recorders[mediaRecorder] = "stopping"
    /\ Len(recordedChunks) >= 2
    /\ recordedChunks = sessionChunks

\* C16: the onstop of every stopped session issues exactly one request to
\* /upload-video, whatever the number of chunks, zero included, and no
\* other step issues one.
C16_OneRequestPerSession ==
    [][/\ (lastOp' = "onstop") => (Len(uploads') = Len(uploads) + 1)
       /\ (Len(uploads') > Len(uploads)) => (lastOp' = "onstop")]_vars

\* startRecording without a stream, called directly or by the key.
NoStreamStart ==
    /\ ~videoStream
    /\ \/ lastOp' = "startRecording"
       \/ lastOp' = "keydown" /\ recordingStatus = "idle"

\* C17: startRecording with no video stream leaves the session idle and
\* recordedChunks as they are, creates no recorder, and reports the
\* failure.
C17_StartWithoutStream ==
    [][NoStreamStart
        => /\ recordingStatus' = "idle"
           /\ UNCHANGED <<recordedChunks, recorders, mediaRecorder, uploads>>
           /\ consoleOut' = "Cannot start recording: No video stream."
           /\ statusText' = "Recording: Failed (No Stream)"]_vars

\* C17 witness: startRecording has been called without a stream.
C17_Witness ==
    /\ ~videoStream
    /\ lastOp = "startRecording"
    /\ recordingStatus = "idle"
    /\ recorders = <<>>
    /\ statusText = "Recording: Failed (No Stream)"

\* C18: whenever recordingStatus is idle or error, recordedChunks is empty.
C18_ChunksOnlyInFlight ==
    (recordingStatus \in {"idle", "error"}) => (recordedChunks = <<>>)

\* The key after (or before) name in the cyclic order of the templates.
KeyAfter(name, step) == Keys[((IndexOfKey(name) + step + Len(Keys)) % Len(Keys)) + 1]

\* A step in which onResults accepts a swipe.
SwipeAccepted ==
    /\ lastOp' = "onResults"
    /\ ~swipeDetected
    /\ swipeDetected'

\* The direction of the swipe accepted: +1 to the right, -1 to the left.
SwipeStep == IF lastFrame'[1][8][1] - prevX[1] > 0 THEN 1 ELSE 0 - 1

\* C19: an accepted swipe requests the successor (or predecessor) of the
\* current shape in the cyclic order; and a swipe accepted while the morph
\* started by a swipe in the same direction is still in flight brings the
\* selected (target) shape two positions from the current one.
C19_SwipeAdvancesSelection ==
    [][SwipeAccepted
        => /\ reqName' = KeyAfter(currentTemplateName, SwipeStep)
           /\ (targetTemplateName = KeyAfter(currentTemplateName, SwipeStep))
                => (targetTemplateName'
                      = KeyAfter(currentTemplateName, 2 * SwipeStep))]_vars

\* C20: a step changes the start or end positions only if it is a
\* shape-change request that starts a morph, and then it rewrites them for
\* all particles; a frame leaves both buffers unchanged, and a request
\* naming the current shape leaves buffers and morph state unchanged.
C20_BuffersOnlyOnMorphStart ==
    [][/\ (startPositions' # startPositions \/ endPositions' # endPositions)
            => /\ lastOp' = "changeParticleTemplate"
               /\ targetTemplateName' = reqName'
               /\ currentTemplateName' # targetTemplateName'
               /\ morphTime' = 0
               /\ startPositions' = endPositions
               /\ endPositions' \in Samples(reqName')
       /\ (lastOp' = "animate") => UNCHANGED <<startPositions, endPositions>>
       /\ (lastOp' = "changeParticleTemplate" /\ reqName' = currentTemplateName)
            => UNCHANGED morphVars]_vars

\* The base position of particle i, mix(startPosition, endPosition,
\* uMorphFactor), scaled by MorphTicks.
BasePositionScaled(i) == MixScaled(startPositions[i], endPositions[i], uMorphFactor)

\* C21: whenever current = target, the base position of every particle is
\* the position sampled for it from the current template (the end position
\* of the last morph); the frame that completes a morph leaves the base
\* positions at the target shape.
C21_StableShowsCurrent ==
    (currentTemplateName = targetTemplateName)
        => \A i \in Particles :
              /\ BasePositionScaled(i) = [c \in 1 .. 3 |-> endPositions[i][c] * MorphTicks]
              /\ \E draw \in RandomDraws :
                    endPositions[i] = Template(currentTemplateName, i, draw)

\* A frame or a landmark frame without a swipe leaves the target of a morph
\* in flight and never sets morphTime back, unless it completes the morph;
\* and a morph ends only by a frame, at the shape that was its target.
NoPostponeStep ==
    /\ (Morphing /\ lastOp' \in {"animate", "onResults"})
         => /\ targetTemplateName' = targetTemplateName
            /\ \/ morphTime' >= morphTime
               \/ currentTemplateName' = targetTemplateName
    /\ (Morphing /\ currentTemplateName' = targetTemplateName')
         => /\ lastOp' = "animate"
            /\ currentTemplateName' = targetTemplateName

\* C22: a morph in flight, with frames of positive delta kept coming, ends
\* in Stable at its target unless a new shape-change request arrives;
\* frames and landmark frames that trigger no swipe never postpone it.
C22_MorphCompletes ==
    /\ (Morphing /\ lastOp # "changeParticleTemplate")
         ~> (~Morphing \/ lastOp = "changeParticleTemplate")
    /\ [][NoPostponeStep]_vars

\* C22 witness: a frame has completed the morph to fireworks that the last
\* request started.
C22_Witness ==
    /\ lastOp = "animate"
    /\ ~Morphing
    /\ currentTemplateName = "fireworks"
    /\ reqName = "fireworks"
    /\ startPositions # endPositions

\* C23: with the recorder delivering its stop event and the upload ending,
\* a session in 'uploading' reaches 'idle' or 'error', whatever chunks and
\* key presses come in between; and only onstop or the end of the upload
\* takes it out of 'uploading'.
C23_UploadingEnds ==
    /\ (recordingStatus = "uploading")
         ~> (recordingStatus \in {"idle", "error"})
    /\ [][(recordingStatus = "uploading" /\ recordingStatus' # "uploading")
            => /\ recordingStatus' \in {"idle", "error"}
               /\ lastOp' \in {"onstop", "uploadDone"}]_vars

\* C23 witness: the last session the bound allows was stopped with chunks
\* and has left 'uploading' for 'idle' when its upload succeeded.
C23_Witness ==
    /\ lastOp = "uploadDone"
    /\ recordingStatus = "idle"
    /\ mediaRecorder # 0
    /\ recorders[mediaRecorder] = "inactive"
    /\ uploads = <<>>
    /\ Len(recorders) = MaxRecorders

=============================================================================
